---- MODULE Spec2Model ----
\* Verification model of the MacBook landing page: the Pinia store, the
\* ProductViewer click handlers, the Features scroll timeline, the video
\* model (Macbook.vue), the ModelSwitcher transition manager, the image
\* loading of the static models and the teardown of the animated sections.
\*
\* Numbers: scale values are kept in hundredths (0.08 is 8), timeline times
\* in tenths of a second (0.5 is 5).
EXTENDS Integers, Sequences, FiniteSets, TLC

VARIABLES
    store,        \* the Pinia store: [color, scale, texture]
    feat,         \* Features.vue instance state
    playhead,     \* playhead of the Features contentTimeline, in tenths
    mb,           \* Macbook.vue (video model) instance state
    video,        \* the <video> element created by Macbook.vue
    ms,           \* ModelSwitcher.vue instance state
    scene,        \* x positions and material opacities of the two groups
    tweens,       \* the running GSAP tweens, in creation order
    hist,         \* record of the transitions the switcher executed
    lastReset,    \* the store state the latest reset() was applied to, if
                  \* reset() was the latest store action
    loader,       \* setup progress of the three image-textured model components
    perf,         \* Performance.vue instance state
    desktop,      \* whether the viewport matches (min-width: 1025px)
    mq,           \* the useMediaQuery('(max-width: 1024px)') instances
    playback,     \* record of the setTexture calls the contentTimeline made
    sect          \* the Highlights.vue and Showcase.vue instances

storeVars == <<store, lastReset>>
featVars == <<feat, playhead, playback>>
mbVars == <<mb, video>>
sceneVars == <<scene, tweens, hist>>
msVars == <<ms, scene, tweens, hist>>
loadVars == <<loader>>
perfVars == <<perf, desktop>>
mediaVars == <<mq, sect>>

\* ---------------------------------------------------------------------
\* Store (src/store/index.ts)
\* ---------------------------------------------------------------------
SILVER == "#adb5bd"
SPACE_GREY == "#2e2c2e"

FeatureVideo(k) == "/videos/feature-" \o ToString(k) \o ".mp4"

InitStore == [color |-> SPACE_GREY, scale |-> 8, texture |-> FeatureVideo(1)]

setColor(st, newColor) == [st EXCEPT !.color = newColor]

setScale(st, newScale) == [st EXCEPT !.scale = newScale]

setTexture_Cleared(st, newTexture) == [st EXCEPT !.texture = ""]

setTexture(st, newTexture) == [st EXCEPT !.texture = newTexture]

reset_KeepsScale(st) == [st EXCEPT !.color = SPACE_GREY, !.texture = FeatureVideo(1)]

reset(st) == [st EXCEPT !.color = SPACE_GREY, !.scale = 8,
                        !.texture = FeatureVideo(1)]

NoReset == [done |-> FALSE, from |-> InitStore]

\* ---------------------------------------------------------------------
\* Vue watcher bookkeeping: a watcher is [dirty, old]; a change of its
\* source queues the job, the flush runs the callback only when the value
\* differs from the one seen at the previous run.
\* ---------------------------------------------------------------------
Trigger(w, active, changed) ==
    IF active /\ changed THEN [w EXCEPT !.dirty = TRUE] ELSE w

\* ---------------------------------------------------------------------
\* Macbook.vue: video texture synchronisation
\* ---------------------------------------------------------------------
InitVideo == [src |-> "", playRequested |-> FALSE]

\* created, disposed: how many VideoTextures the instance constructed and
\* disposed; lazy: the texture was constructed by the watcher
InitMb == [state |-> "none", watch |-> [dirty |-> FALSE, old |-> ""],
           videoTexture |-> FALSE, created |-> 0, disposed |-> 0, lazy |-> FALSE]

\* video.src = url; video.play()
PlayUrl(v, url) == [v EXCEPT !.src = url, !.playRequested = TRUE]

\* lazy creation of the VideoTexture
EnsureTexture_AlwaysNew(m) == [m EXCEPT !.videoTexture = TRUE, !.created = @ + 1]

EnsureTexture(m) ==
    IF m.videoTexture THEN m
    ELSE [m EXCEPT !.videoTexture = TRUE, !.created = @ + 1]

TextureSync_NoSource(m, v, newUrl) ==
    IF newUrl # ""
    THEN [m |-> EnsureTexture(m), v |-> [v EXCEPT !.playRequested = TRUE]]
    ELSE [m |-> m, v |-> [v EXCEPT !.playRequested = FALSE]]

\* the callback of watch(textureUrl, ...)
TextureSync(m, v, newUrl) ==
    IF newUrl # ""
    THEN [m |-> EnsureTexture(m), v |-> PlayUrl(v, newUrl)]
    ELSE [m |-> m, v |-> [v EXCEPT !.playRequested = FALSE]]

\* every store mutation notifies the watchers that read the changed field:
\* the texture watcher of a mounted video model and the scale watcher of a
\* mounted ModelSwitcher
StoreUpdate(newStore, textureTouched) ==
    /\ store' = newStore
    /\ lastReset' = NoReset
    /\ mb' = [mb EXCEPT !.watch = Trigger(@, mb.state = "mounted", textureTouched)]
    /\ ms' = [ms EXCEPT !.watch = Trigger(@, ms.state = "mounted",
                                          newStore.scale # store.scale)]

MacbookSetup ==
    /\ mb.state = "none"
    /\ LET m0 == [InitMb EXCEPT !.state = "mounted",
                                !.watch = [dirty |-> FALSE, old |-> store.texture]]
       IN IF store.texture # ""
          THEN /\ video' = PlayUrl(InitVideo, store.texture)
               /\ mb' = EnsureTexture(m0)
          ELSE /\ video' = InitVideo
               /\ mb' = m0
    /\ UNCHANGED <<storeVars, featVars, msVars, loadVars, perfVars, mediaVars>>

MacbookWatchFlush ==
    /\ mb.state = "mounted"
    /\ mb.watch.dirty
    /\ LET r == IF store.texture # mb.watch.old
                THEN TextureSync(mb, video, store.texture)
                ELSE [m |-> mb, v |-> video]
       IN /\ mb' = [r.m EXCEPT !.watch = [dirty |-> FALSE, old |-> store.texture],
                                !.lazy = @ \/ r.m.created > mb.created]
          /\ video' = r.v
    /\ UNCHANGED <<storeVars, featVars, msVars, loadVars, perfVars, mediaVars>>

MacbookUnmount ==
    /\ mb.state = "mounted"
    /\ video' = [src |-> "", playRequested |-> FALSE]
    /\ mb' = [mb EXCEPT !.state = "unmounted",
                        !.watch = [dirty |-> FALSE, old |-> mb.watch.old],
                        !.disposed = IF mb.videoTexture THEN @ + 1 ELSE @]
    /\ UNCHANGED <<storeVars, featVars, msVars, loadVars, perfVars, mediaVars>>

\* ---------------------------------------------------------------------
\* ProductViewer.vue click handlers and the store's reset action
\* ---------------------------------------------------------------------
ClickSilver_WrongHex ==
    /\ StoreUpdate(setColor(store, "#adb5bb"), FALSE)
    /\ UNCHANGED <<featVars, video, sceneVars, loadVars, perfVars, mediaVars>>

ClickSilver ==
    /\ StoreUpdate(setColor(store, SILVER), FALSE)
    /\ UNCHANGED <<featVars, video, sceneVars, loadVars, perfVars, mediaVars>>

ClickSpaceGrey ==
    /\ StoreUpdate(setColor(store, SPACE_GREY), FALSE)
    /\ UNCHANGED <<featVars, video, sceneVars, loadVars, perfVars, mediaVars>>

ClickSize14_WrongScale ==
    /\ StoreUpdate(setScale(store, 7), FALSE)
    /\ UNCHANGED <<featVars, video, sceneVars, loadVars, perfVars, mediaVars>>

ClickSize14 ==
    /\ StoreUpdate(setScale(store, 6), FALSE)
    /\ UNCHANGED <<featVars, video, sceneVars, loadVars, perfVars, mediaVars>>

ClickSize16 ==
    /\ StoreUpdate(setScale(store, 8), FALSE)
    /\ UNCHANGED <<featVars, video, sceneVars, loadVars, perfVars, mediaVars>>

\* the size controls carry the "selected" highlight when the store scale
\* equals the value they set
HighlightedSizes(scale) ==
    (IF scale = 6 THEN {"14"} ELSE {}) \cup (IF scale = 8 THEN {"16"} ELSE {})

Reset ==
    /\ store' = reset(store)
    /\ lastReset' = [done |-> TRUE, from |-> store]
    /\ mb' = [mb EXCEPT !.watch = Trigger(@, mb.state = "mounted",
                                          reset(store).texture # store.texture)]
    /\ ms' = [ms EXCEPT !.watch = Trigger(@, ms.state = "mounted",
                                          reset(store).scale # store.scale)]
    /\ UNCHANGED <<featVars, video, sceneVars, loadVars, perfVars, mediaVars>>

\* ---------------------------------------------------------------------
\* Features.vue: lifecycle and the scrubbed content timeline
\* ---------------------------------------------------------------------
INTRO_GAP == 5
REVEAL == 8
READ_PAUSE == 2

\* the video paths of the feature sequence
featureSequence == [k \in 1..5 |-> FeatureVideo(k)]

\* elements: the video elements this instance created; preloadedVideos: the
\* array of references to them; created: how many times the scroll
\* animations were created; reobserved: the watcher ran with a non-null
\* groupRef after they were created
InitFeat == [state |-> "none", groupRef |-> FALSE,
             animationsInitialized |-> FALSE, ctx |-> FALSE,
             watch |-> [dirty |-> FALSE, old |-> FALSE],
             elements |-> <<>>, preloadedVideos |-> <<>>,
             created |-> 0, reobserved |-> FALSE]

\* forwardOnly: the playhead has only moved forward since the timeline was
\* created; fired: the features whose setTexture call ran, in call order,
\* while forwardOnly
InitPlayback == [forwardOnly |-> TRUE, fired |-> <<>>]

\* the same chain with feature 2's .call appended after its box
contentTimeline_TextureAfterBox ==
    <<[kind |-> "call", n |-> 1, dur |-> 0], [kind |-> "gap", n |-> 0, dur |-> INTRO_GAP],
      [kind |-> "box", n |-> 1, dur |-> REVEAL], [kind |-> "gap", n |-> 1, dur |-> READ_PAUSE],
      [kind |-> "box", n |-> 2, dur |-> REVEAL],
      [kind |-> "call", n |-> 2, dur |-> 0], [kind |-> "gap", n |-> 2, dur |-> READ_PAUSE],
      [kind |-> "call", n |-> 3, dur |-> 0],
      [kind |-> "box", n |-> 3, dur |-> REVEAL], [kind |-> "gap", n |-> 3, dur |-> READ_PAUSE],
      [kind |-> "call", n |-> 4, dur |-> 0],
      [kind |-> "box", n |-> 4, dur |-> REVEAL], [kind |-> "gap", n |-> 4, dur |-> READ_PAUSE],
      [kind |-> "call", n |-> 5, dur |-> 0],
      [kind |-> "box", n |-> 5, dur |-> REVEAL]>>

\* the timeline as the chain of .call/.to appends builds it
contentTimeline ==
    <<[kind |-> "call", n |-> 1, dur |-> 0], [kind |-> "gap", n |-> 0, dur |-> INTRO_GAP],
      [kind |-> "box", n |-> 1, dur |-> REVEAL], [kind |-> "gap", n |-> 1, dur |-> READ_PAUSE],
      [kind |-> "call", n |-> 2, dur |-> 0],
      [kind |-> "box", n |-> 2, dur |-> REVEAL], [kind |-> "gap", n |-> 2, dur |-> READ_PAUSE],
      [kind |-> "call", n |-> 3, dur |-> 0],
      [kind |-> "box", n |-> 3, dur |-> REVEAL], [kind |-> "gap", n |-> 3, dur |-> READ_PAUSE],
      [kind |-> "call", n |-> 4, dur |-> 0],
      [kind |-> "box", n |-> 4, dur |-> REVEAL], [kind |-> "gap", n |-> 4, dur |-> READ_PAUSE],
      [kind |-> "call", n |-> 5, dur |-> 0],
      [kind |-> "box", n |-> 5, dur |-> REVEAL]>>

\* start time of item i: each append goes to the end of the timeline
RECURSIVE StartOf(_)
StartOf(i) == IF i = 1 THEN 0 ELSE StartOf(i - 1) + contentTimeline[i - 1].dur

\* the start times, tabulated once
StartTimes == [i \in 1..Len(contentTimeline) |-> StartOf(i)]

TimelineDuration ==
    StartTimes[Len(contentTimeline)] + contentTimeline[Len(contentTimeline)].dur

CallItems == {i \in 1..Len(contentTimeline) : contentTimeline[i].kind = "call"}

\* the calls the playhead crosses when it moves from a to b, in the order
\* it crosses them (ascending when moving forward, descending backward)
Crossed(a, b) ==
    IF a < b THEN {i \in CallItems : a <= StartTimes[i] /\ StartTimes[i] < b}
    ELSE {i \in CallItems : b <= StartTimes[i] /\ StartTimes[i] < a}

RECURSIVE FireCalls(_, _, _)
FireCalls(st, items, forward) ==
    IF items = {} THEN st
    ELSE LET i == IF forward
                  THEN CHOOSE x \in items : \A y \in items : x <= y
                  ELSE CHOOSE x \in items : \A y \in items : x >= y
         IN FireCalls(setTexture(st, FeatureVideo(contentTimeline[i].n)),
                      items \ {i}, forward)

\* the calls in items in the order the playhead fires them
RECURSIVE FireOrder(_, _)
FireOrder(items, forward) ==
    IF items = {} THEN <<>>
    ELSE LET i == IF forward
                  THEN CHOOSE x \in items : \A y \in items : x <= y
                  ELSE CHOOSE x \in items : \A y \in items : x >= y
         IN <<contentTimeline[i].n>> \o FireOrder(items \ {i}, forward)

\* onMounted: one video element per feature, src assigned, load(), pushed
PreloadVideos(f) ==
    [f EXCEPT !.elements = [k \in 1..Len(featureSequence) |->
                               [src |-> featureSequence[k], paused |-> TRUE]],
              !.preloadedVideos = [k \in 1..Len(featureSequence) |-> k]]

\* onUnmounted: pause and clear every element of preloadedVideos, empty it
CleanVideos_Skipped(f) == f

CleanVideos(f) ==
    [f EXCEPT !.elements = [k \in DOMAIN f.elements |->
                               IF \E j \in 1..Len(f.preloadedVideos) : f.preloadedVideos[j] = k
                               THEN [src |-> "", paused |-> TRUE]
                               ELSE f.elements[k]],
              !.preloadedVideos = <<>>]

FeaturesSetup ==
    /\ feat.state \in {"none", "unmounted"}
    /\ feat' = PreloadVideos([InitFeat EXCEPT !.state = "mounted"])
    /\ playhead' = 0
    /\ playback' = InitPlayback
    /\ UNCHANGED <<storeVars, mbVars, msVars, loadVars, perfVars, mediaVars>>

GroupRefChange(v) ==
    /\ feat.state = "mounted"
    /\ feat.groupRef # v
    /\ feat' = [feat EXCEPT !.groupRef = v, !.watch = Trigger(@, TRUE, TRUE)]
    /\ UNCHANGED <<storeVars, mbVars, msVars, playhead, playback, loadVars, perfVars, mediaVars>>

FeaturesWatchFlush_NoGuard ==
    /\ feat.state = "mounted"
    /\ feat.watch.dirty
    /\ LET run == feat.groupRef # feat.watch.old
           init == run /\ feat.groupRef
       IN /\ feat' = [feat EXCEPT !.watch = [dirty |-> FALSE, old |-> feat.groupRef],
                                  !.animationsInitialized = IF init THEN TRUE ELSE @,
                                  !.ctx = IF init THEN TRUE ELSE @,
                                  !.created = IF init THEN @ + 1 ELSE @]
          /\ playhead' = IF init THEN 0 ELSE playhead
          /\ playback' = IF init THEN InitPlayback ELSE playback
    /\ UNCHANGED <<storeVars, mbVars, msVars, loadVars, perfVars, mediaVars>>

FeaturesWatchFlush ==
    /\ feat.state = "mounted"
    /\ feat.watch.dirty
    /\ LET run == feat.groupRef # feat.watch.old
           init == run /\ feat.groupRef /\ ~feat.animationsInitialized
       IN /\ feat' = [feat EXCEPT !.watch = [dirty |-> FALSE, old |-> feat.groupRef],
                                  !.animationsInitialized = IF init THEN TRUE ELSE @,
                                  !.ctx = IF init THEN TRUE ELSE @,
                                  !.created = IF init THEN @ + 1 ELSE @,
                                  !.reobserved = @ \/ (run /\ feat.groupRef
                                                          /\ feat.animationsInitialized)]
          /\ playhead' = IF init THEN 0 ELSE playhead
          /\ playback' = IF init THEN InitPlayback ELSE playback
    /\ UNCHANGED <<storeVars, mbVars, msVars, loadVars, perfVars, mediaVars>>

Scrub(p) ==
    /\ feat.ctx
    /\ p # playhead
    /\ LET st == FireCalls(store, Crossed(playhead, p), playhead < p)
       IN StoreUpdate(st, \E i \in Crossed(playhead, p) :
                              FeatureVideo(contentTimeline[i].n) # store.texture)
    /\ playhead' = p
    /\ playback' = IF playback.forwardOnly /\ playhead < p
                   THEN [playback EXCEPT !.fired = @ \o FireOrder(Crossed(playhead, p), TRUE)]
                   ELSE [forwardOnly |-> FALSE, fired |-> <<>>]
    /\ UNCHANGED <<feat, video, sceneVars, loadVars, perfVars, mediaVars>>

FeaturesUnmount ==
    /\ feat.state = "mounted"
    /\ feat' = [CleanVideos(feat) EXCEPT
                    !.state = "unmounted", !.groupRef = FALSE,
                    !.animationsInitialized = FALSE, !.ctx = FALSE,
                    !.watch = [dirty |-> FALSE, old |-> feat.watch.old]]
    /\ playhead' = 0
    /\ playback' = InitPlayback
    /\ UNCHANGED <<storeVars, mbVars, msVars, loadVars, perfVars, mediaVars>>

\* ---------------------------------------------------------------------
\* ModelSwitcher.vue: the scale-driven transition between the two models
\* ---------------------------------------------------------------------
MaxTransitions == 3      \* executed transitions explored
TicksPerSecond == 2      \* animation frames per second of tween time
MeshesPerGroup == 2      \* meshes found by traverse() in each model group

ANIMATION_DURATION == 1
OFFSET_DISTANCE == 5
SCALE_LARGE_DESKTOP == 8
SCALE_LARGE_MOBILE == 5

\* scale values a caller may pass to setScale / the scale prop
ScaleInputs == {3, 5, 6, 7, 8}

Groups == {"small", "large"}
PositionOf(g) == <<g, "x", 0>>
MaterialOf(g, i) == <<g, "opacity", i>>
Materials == {MaterialOf(g, i) : g \in Groups, i \in 1..MeshesPerGroup}
Targets == {PositionOf(g) : g \in Groups} \cup Materials

\* property values are kept as multiples of 1/Unit so that every eased
\* intermediate value is an integer
RECURSIVE Pow(_, _)
Pow(b, n) == IF n = 0 THEN 1 ELSE b * Pow(b, n - 1)
TweenTicks(duration) == duration * TicksPerSecond
Unit == Pow(TweenTicks(ANIMATION_DURATION) * TweenTicks(ANIMATION_DURATION),
            MaxTransitions)

InitScene == [value |-> [t \in Targets |-> IF t[2] = "x" THEN 0 ELSE Unit],
              transparent |-> [m \in Materials |-> FALSE]]

InitMs == [state |-> "none", smallMacbookRef |-> FALSE, largeMacbookRef |-> FALSE,
           isFirstRun |-> TRUE,
           watch |-> [dirty |-> FALSE, old |-> <<0, FALSE, FALSE>>]]

InitHist == [durations |-> <<>>, aborted |-> FALSE, scale |-> 0, started |-> {},
             overlapped |-> FALSE]

\* gsap.to(target, {prop: to, duration}): a zero-duration tween renders at
\* once, any other is appended to the running tweens and reads its start
\* value at its first render
gsapTo_DropsWhenBusy(w, target, to, duration) ==
    IF duration = 0
    THEN [w EXCEPT !.scene.value[target] = to * Unit,
                   !.started = @ \cup {[target |-> target, to |-> to, duration |-> duration]}]
    ELSE IF \E i \in 1..Len(w.tweens) : w.tweens[i].target = target
    THEN [w EXCEPT !.started = @ \cup {[target |-> target, to |-> to, duration |-> duration]}]
    ELSE [w EXCEPT !.tweens = Append(@, [target |-> target, to |-> to * Unit,
                                         dur |-> TweenTicks(duration), elapsed |-> 0,
                                         initted |-> FALSE, from |-> 0]),
                   !.started = @ \cup {[target |-> target, to |-> to, duration |-> duration]}]

gsapTo(w, target, to, duration) ==
    IF duration = 0
    THEN [w EXCEPT !.scene.value[target] = to * Unit,
                   !.started = @ \cup {[target |-> target, to |-> to, duration |-> duration]}]
    ELSE [w EXCEPT !.tweens = Append(@, [target |-> target, to |-> to * Unit,
                                         dur |-> TweenTicks(duration), elapsed |-> 0,
                                         initted |-> FALSE, from |-> 0]),
                   !.started = @ \cup {[target |-> target, to |-> to, duration |-> duration]}]

moveGroup_Mirrored(w, group, present, x, duration) ==
    IF ~present THEN w ELSE gsapTo(w, PositionOf(group), -x, duration)

moveGroup(w, group, present, x, duration) ==
    IF ~present THEN w ELSE gsapTo(w, PositionOf(group), x, duration)

RECURSIVE fadeMesh(_, _, _, _, _)
fadeMesh(w, group, i, opacity, duration) ==
    IF i > MeshesPerGroup THEN w
    ELSE fadeMesh(gsapTo([w EXCEPT !.scene.transparent[MaterialOf(group, i)] = TRUE],
                         MaterialOf(group, i), opacity, duration),
                  group, i + 1, opacity, duration)

fadeMeshes(w, group, present, opacity, duration) ==
    IF ~present THEN w ELSE fadeMesh(w, group, 1, opacity, duration)

showLargeMacbook_Threshold(scale) == scale >= SCALE_LARGE_MOBILE

showLargeMacbook(scale) ==
    scale = SCALE_LARGE_DESKTOP \/ scale = SCALE_LARGE_MOBILE

SelectedModel(scale) == IF showLargeMacbook(scale) THEN "large" ELSE "small"

\* the body of the watcher callback after the guard
Transition(w, m, scale, duration) ==
    IF showLargeMacbook(scale)
    THEN fadeMeshes(fadeMeshes(moveGroup(moveGroup(w,
             "small", m.smallMacbookRef, -OFFSET_DISTANCE, duration),
             "large", m.largeMacbookRef, 0, duration),
             "small", m.smallMacbookRef, 0, duration),
             "large", m.largeMacbookRef, 1, duration)
    ELSE fadeMeshes(fadeMeshes(moveGroup(moveGroup(w,
             "small", m.smallMacbookRef, 0, duration),
             "large", m.largeMacbookRef, OFFSET_DISTANCE, duration),
             "small", m.smallMacbookRef, 1, duration),
             "large", m.largeMacbookRef, 0, duration)

\* first run: teleport (0 s); later runs: animate
TransitionDuration_AlwaysAnimated(isFirstRun) == ANIMATION_DURATION

TransitionDuration(isFirstRun) == IF isFirstRun THEN 0 ELSE ANIMATION_DURATION

\* the guard's early return: the component after a run that found a ref unset
GuardReturn_ClearsFirstRun(m, scale) ==
    [m EXCEPT !.isFirstRun = FALSE,
              !.watch = [dirty |-> FALSE,
                         old |-> <<scale, m.smallMacbookRef, m.largeMacbookRef>>],
              !.state = "mounted"]

GuardReturn(m, scale) ==
    [m EXCEPT !.watch = [dirty |-> FALSE,
                         old |-> <<scale, m.smallMacbookRef, m.largeMacbookRef>>],
              !.state = "mounted"]

\* the watcher callback: guard, duration choice, transition, first-run flag
WatchCallback ==
    IF ~ms.smallMacbookRef \/ ~ms.largeMacbookRef
    THEN /\ hist' = [hist EXCEPT !.aborted = TRUE]
         /\ UNCHANGED <<scene, tweens>>
         /\ ms' = GuardReturn(ms, store.scale)
    ELSE LET duration == TransitionDuration(ms.isFirstRun)
             w == Transition([scene |-> scene, tweens |-> tweens, started |-> {}],
                             ms, store.scale, duration)
         IN /\ scene' = w.scene
            /\ tweens' = w.tweens
            /\ hist' = [hist EXCEPT !.durations = Append(@, duration),
                                    !.scale = store.scale,
                                    !.started = w.started,
                                    !.overlapped = @ \/ (duration > 0 /\ tweens # <<>>)]
            /\ ms' = [ms EXCEPT !.isFirstRun = FALSE,
                          !.watch = [dirty |-> FALSE,
                              old |-> <<store.scale, ms.smallMacbookRef, ms.largeMacbookRef>>],
                          !.state = "mounted"]

\* setup: the watcher is created with immediate: true and runs once
SwitcherSetup ==
    /\ ms.state = "none"
    /\ WatchCallback
    /\ UNCHANGED <<storeVars, featVars, mbVars, loadVars, perfVars, mediaVars>>

\* the template refs are filled once the groups are mounted
RefSet(g) ==
    /\ ms.state = "mounted"
    /\ IF g = "small" THEN ~ms.smallMacbookRef ELSE ~ms.largeMacbookRef
    /\ ms' = [ms EXCEPT !.smallMacbookRef = IF g = "small" THEN TRUE ELSE @,
                        !.largeMacbookRef = IF g = "large" THEN TRUE ELSE @,
                        !.watch = Trigger(@, TRUE, TRUE)]
    /\ UNCHANGED <<storeVars, featVars, mbVars, sceneVars, loadVars, perfVars, mediaVars>>

\* flush: 'post' job of the watcher
SwitcherWatchFlush ==
    /\ ms.state = "mounted"
    /\ ms.watch.dirty
    /\ Len(hist.durations) < MaxTransitions
    /\ IF <<store.scale, ms.smallMacbookRef, ms.largeMacbookRef>> # ms.watch.old
       THEN WatchCallback
       ELSE /\ ms' = [ms EXCEPT !.watch.dirty = FALSE]
            /\ UNCHANGED sceneVars
    /\ UNCHANGED <<storeVars, featVars, mbVars, loadVars, perfVars, mediaVars>>

\* a caller passes a new scale (the store's setScale with any number)
SetScale(s) ==
    /\ StoreUpdate(setScale(store, s), FALSE)
    /\ UNCHANGED <<featVars, video, sceneVars, loadVars, perfVars, mediaVars>>

\* power1.out, GSAP's default ease, at e of d ticks: 1 - (1 - e/d)^2
EaseNum(e, d) == d * d - (d - e) * (d - e)

\* one animation frame: every running tween renders in creation order, a
\* tween that reaches its duration is removed
RECURSIVE RenderFrom(_, _, _, _)
RenderFrom(val, tws, i, kept) ==
    IF i > Len(tws) THEN [value |-> val, tweens |-> kept]
    ELSE LET tw == tws[i]
             from == IF tw.initted THEN tw.from ELSE val[tw.target]
             e == tw.elapsed + 1
             v == from + ((tw.to - from) * EaseNum(e, tw.dur)) \div (tw.dur * tw.dur)
         IN RenderFrom([val EXCEPT ![tw.target] = v], tws, i + 1,
                       IF e >= tw.dur THEN kept
                       ELSE Append(kept, [tw EXCEPT !.elapsed = e, !.initted = TRUE,
                                                    !.from = from]))

Tick ==
    /\ tweens # <<>>
    /\ LET r == RenderFrom(scene.value, tweens, 1, <<>>)
       IN /\ scene' = [scene EXCEPT !.value = r.value]
          /\ tweens' = r.tweens
    /\ UNCHANGED <<storeVars, featVars, mbVars, ms, hist, loadVars, perfVars, mediaVars>>

\* the component has no unmount hook: the refs are cleared and the watcher
\* is stopped by the framework, nothing else happens
SwitcherUnmount ==
    /\ ms.state = "mounted"
    /\ ms' = [ms EXCEPT !.state = "unmounted", !.smallMacbookRef = FALSE,
                        !.largeMacbookRef = FALSE, !.watch.dirty = FALSE]
    /\ UNCHANGED <<storeVars, featVars, mbVars, sceneVars, loadVars, perfVars, mediaVars>>

\* ---------------------------------------------------------------------
\* Macbook-14.vue, Macbook-16.vue, ModeloPrueba.vue: model and screen image
\* loading in setup, and what the template renders from the result
\* ---------------------------------------------------------------------
ModelComponents == {"Macbook14", "Macbook16", "ModeloPrueba"}

InitLoader == [c \in ModelComponents |->
                 [pc |-> "gltf", nodes |-> FALSE, uv |-> FALSE, texture |-> FALSE,
                  errorLogged |-> FALSE, warned |-> FALSE, imageRejected |-> FALSE]]

\* await useGLTF(...): the wrapper's state holds the scene ("scene"), holds
\* nothing ("empty": no node is collected), or the await throws and setup ends
LoadModel(c, outcome, uv) ==
    /\ loader[c].pc = "gltf"
    /\ loader' = [loader EXCEPT ![c] =
          IF outcome = "throw" THEN [@ EXCEPT !.pc = "failed"]
          ELSE [@ EXCEPT !.pc = "image", !.nodes = (outcome = "scene"),
                         !.uv = (outcome = "scene" /\ uv)]]
    /\ UNCHANGED <<storeVars, featVars, mbVars, msVars, perfVars, mediaVars>>

\* the try/catch around textureLoader.loadAsync(...)
LoadScreenImage_Uncaught(l, resolved) ==
    IF resolved
    THEN [l EXCEPT !.pc = "done", !.texture = TRUE, !.warned = l.nodes /\ ~l.uv]
    ELSE [l EXCEPT !.pc = "failed"]

LoadScreenImage(l, resolved) ==
    IF resolved
    THEN [l EXCEPT !.pc = "done", !.texture = TRUE, !.warned = l.nodes /\ ~l.uv]
    ELSE [l EXCEPT !.pc = "done", !.errorLogged = TRUE]

LoadImage(c, resolved) ==
    /\ loader[c].pc = "image"
    /\ loader' = [loader EXCEPT ![c] =
                      [LoadScreenImage(@, resolved) EXCEPT !.imageRejected = ~resolved]]
    /\ UNCHANGED <<storeVars, featVars, mbVars, msVars, perfVars, mediaVars>>

\* v-else colour of the screen mesh
PlaceholderColor(c) == IF c = "ModeloPrueba" THEN "red" ELSE "black"

\* <TresGroup v-if="nodes?.Object_10">
GroupRendered(c) == loader[c].pc = "done" /\ loader[c].nodes

\* the material of the screen mesh (Object_123), "none" when it is not rendered
ScreenMaterial(c) ==
    IF ~GroupRendered(c) THEN "none"
    ELSE IF loader[c].texture THEN "map" ELSE PlaceholderColor(c)

\* the meshes other than the screen use the materials of the GLTF file
BodyMaterial(c) == IF GroupRendered(c) THEN "gltf" ELSE "none"

\* ---------------------------------------------------------------------
\* useMediaQuery.ts, as called by ProductViewer.vue and Features.vue
\* ---------------------------------------------------------------------
MediaHosts == {"ProductViewer", "Features"}

\* window.matchMedia('(max-width: 1024px)').matches for a viewport
MobileQuery(isDesktop) == ~isDesktop

InitMq == [c \in MediaHosts |->
             [state |-> "none", matches |-> FALSE, listeners |-> 0,
              added |-> 0, atUnmount |-> FALSE]]

\* the change listener, run for a registered listener only
listener(m, eventMatches) ==
    IF m.listeners > 0 THEN [m EXCEPT !.matches = eventMatches] ELSE m

\* the composable's body: ref(false), then the query's current state
MediaSetup(c) ==
    /\ mq[c].state = "none"
    /\ mq' = [mq EXCEPT ![c] = [@ EXCEPT !.state = "setup",
                                         !.matches = MobileQuery(desktop)]]
    /\ UNCHANGED <<storeVars, featVars, mbVars, msVars, loadVars, perfVars, sect>>

\* onMounted: addEventListener("change", listener)
MediaMounted(c) ==
    /\ mq[c].state = "setup"
    /\ mq' = [mq EXCEPT ![c] = [@ EXCEPT !.state = "mounted", !.listeners = 1,
                                         !.added = @ + 1]]
    /\ UNCHANGED <<storeVars, featVars, mbVars, msVars, loadVars, perfVars, sect>>

MediaUnmount_KeepsListener(c) ==
    /\ mq[c].state \in {"setup", "mounted"}
    /\ mq' = [mq EXCEPT ![c] = [@ EXCEPT !.state = "unmounted",
                                         !.atUnmount = mq[c].matches]]
    /\ UNCHANGED <<storeVars, featVars, mbVars, msVars, loadVars, perfVars, sect>>

\* onUnmounted: removeEventListener("change", listener)
MediaUnmount(c) ==
    /\ mq[c].state \in {"setup", "mounted"}
    /\ mq' = [mq EXCEPT ![c] = [@ EXCEPT !.state = "unmounted", !.listeners = 0,
                                         !.atUnmount = mq[c].matches]]
    /\ UNCHANGED <<storeVars, featVars, mbVars, msVars, loadVars, perfVars, sect>>

\* ---------------------------------------------------------------------
\* Highlights.vue and Showcase.vue: mm = gsap.matchMedia() is created first,
\* then mm.add(...) is called inside the gsap.context callback
\* ---------------------------------------------------------------------
SectionHosts == {"Highlights", "Showcase"}

\* whether a condition of the component's mm.add matches the viewport:
\* Highlights lists isMobile and isDesktop, Showcase isDesktop alone
AnyMatch(c, isDesktop) == IF c = "Highlights" THEN TRUE ELSE isDesktop

\* whether the handler creates an animation when it runs
Animates(c, isDesktop) == IF c = "Highlights" THEN TRUE ELSE isDesktop

\* ctx: the component's context is live; media: the context mm.add created
\* is registered for breakpoint changes; nested: that context was recorded
\* in ctx (its handler ran while ctx was the active context); anim: an
\* animation or scroll trigger created by the handler is active
InitSect == [c \in SectionHosts |->
                [state |-> "none", ctx |-> FALSE, media |-> FALSE,
                 nested |-> FALSE, anim |-> FALSE]]

\* onMounted: mm.add registers the conditions and, on a match, runs the
\* handler at once, inside the callback of gsap.context
SectionMount(c) ==
    /\ sect[c].state = "none"
    /\ sect' = [sect EXCEPT ![c] =
                    [state |-> "mounted", ctx |-> TRUE, media |-> TRUE,
                     nested |-> AnyMatch(c, desktop),
                     anim |-> AnyMatch(c, desktop) /\ Animates(c, desktop)]]
    /\ UNCHANGED <<storeVars, featVars, mbVars, msVars, loadVars, perfVars, mq>>

\* a breakpoint change reaches every registered matchMedia context: what
\* the handler created is reverted, and the handler runs again on a match
onMediaChange(s, c, isDesktop) ==
    IF s.media
    THEN [s EXCEPT !.anim = AnyMatch(c, isDesktop) /\ Animates(c, isDesktop)]
    ELSE s

\* ctx.revert() reverts what is recorded in ctx
revert(s) ==
    [s EXCEPT !.ctx = FALSE, !.anim = IF s.nested THEN FALSE ELSE @]

\* onUnmounted: ctx.revert()
SectionUnmount(c) ==
    /\ sect[c].state = "mounted"
    /\ sect' = [sect EXCEPT ![c] = [revert(@) EXCEPT !.state = "unmounted"]]
    /\ UNCHANGED <<storeVars, featVars, mbVars, msVars, loadVars, perfVars, mq>>

\* ---------------------------------------------------------------------
\* Performance.vue: text reveal in a context, image scatter in matchMedia
\* ---------------------------------------------------------------------
InitPerf == [state |-> "none", ctx |-> FALSE, mm |-> FALSE, scatter |-> FALSE]

PerformanceMount ==
    /\ perf.state = "none"
    /\ perf' = [state |-> "mounted", ctx |-> TRUE, mm |-> TRUE, scatter |-> desktop]
    /\ UNCHANGED <<storeVars, featVars, mbVars, msVars, loadVars, desktop, mediaVars>>

\* a breakpoint change: a live matchMedia runs the handler on a match and
\* the handler's cleanup (localCtx.revert()) when the match ends
ViewportChange ==
    /\ desktop' = ~desktop
    /\ perf' = IF perf.mm THEN [perf EXCEPT !.scatter = ~desktop] ELSE perf
    /\ mq' = [c \in MediaHosts |-> listener(mq[c], MobileQuery(~desktop))]
    /\ sect' = [c \in SectionHosts |-> onMediaChange(sect[c], c, ~desktop)]
    /\ UNCHANGED <<storeVars, featVars, mbVars, msVars, loadVars>>

PerformanceUnmount ==
    /\ perf.state = "mounted"
    /\ perf' = [state |-> "unmounted", ctx |-> FALSE, mm |-> FALSE, scatter |-> FALSE]
    /\ UNCHANGED <<storeVars, featVars, mbVars, msVars, loadVars, desktop, mediaVars>>

\* ---------------------------------------------------------------------
vars == <<store, feat, playhead, mb, video, ms, scene, tweens, hist, lastReset,
          loader, perf, desktop, mq, playback, sect>>

Init ==
    /\ store = InitStore
    /\ feat = InitFeat
    /\ playhead = 0
    /\ mb = InitMb
    /\ video = InitVideo
    /\ ms = InitMs
    /\ scene = InitScene
    /\ tweens = <<>>
    /\ hist = InitHist
    /\ lastReset = NoReset
    /\ loader = InitLoader
    /\ perf = InitPerf
    /\ desktop = TRUE
    /\ mq = InitMq
    /\ playback = InitPlayback
    /\ sect = InitSect

\* the positions a scroll leaves the playhead at: the start, the boundaries
\* of every timeline item, a point inside every item, and the end
ScrubPoints ==
    {0, TimelineDuration}
        \cup {StartTimes[i] : i \in 1..Len(contentTimeline)}
        \cup {StartTimes[i] + (contentTimeline[i].dur + 1) \div 2 : i \in 1..Len(contentTimeline)}

\* the store, the page's handlers, the Features timeline and the video model
Next ==
    \/ ClickSilver
    \/ ClickSpaceGrey
    \/ ClickSize14
    \/ ClickSize16
    \/ Reset
    \/ FeaturesSetup
    \/ \E v \in BOOLEAN : GroupRefChange(v)
    \/ FeaturesWatchFlush
    \/ \E p \in ScrubPoints : Scrub(p)
    \/ FeaturesUnmount
    \/ MacbookSetup
    \/ MacbookWatchFlush
    \/ MacbookUnmount

Spec == Init /\ [][Next]_vars

\* the Features instance under scroll alone
NextTimeline ==
    \/ FeaturesSetup
    \/ \E v \in BOOLEAN : GroupRefChange(v)
    \/ FeaturesWatchFlush
    \/ \E p \in ScrubPoints : Scrub(p)
    \/ FeaturesUnmount

SpecTimeline == Init /\ [][NextTimeline]_vars

\* the texture values a caller of setTexture passes, the empty one included
TextureInputs == {""} \cup {FeatureVideo(k) : k \in 1..5}

SetTexture(t) ==
    /\ t # store.texture
    /\ StoreUpdate(setTexture(store, t), TRUE)
    /\ UNCHANGED <<featVars, video, sceneVars, loadVars, perfVars, mediaVars>>

\* one video model instance under arbitrary texture changes
NextVideo ==
    \/ \E t \in TextureInputs : SetTexture(t)
    \/ MacbookSetup
    \/ MacbookWatchFlush
    \/ MacbookUnmount

SpecVideo == Init /\ [][NextVideo]_vars

\* the ModelSwitcher driven by scale changes and animation frames
NextSwitcher ==
    \/ SwitcherSetup
    \/ \E g \in Groups : RefSet(g)
    \/ \E s \in ScaleInputs : SetScale(s)
    \/ SwitcherWatchFlush
    \/ Tick
    \/ SwitcherUnmount

SpecSwitcher == Init /\ [][NextSwitcher]_vars

\* setup of the model components of the product viewer
NextLoader ==
    \/ \E c \in ModelComponents, o \in {"scene", "empty", "throw"}, uv \in BOOLEAN :
          LoadModel(c, o, uv)
    \/ \E c \in ModelComponents, r \in BOOLEAN : LoadImage(c, r)

SpecLoader == Init /\ [][NextLoader]_vars

\* mounting and unmounting of the components that start animations
NextTeardown ==
    \/ SwitcherSetup
    \/ \E g \in Groups : RefSet(g)
    \/ \E s \in ScaleInputs : SetScale(s)
    \/ SwitcherWatchFlush
    \/ Tick
    \/ SwitcherUnmount
    \/ FeaturesSetup
    \/ \E v \in BOOLEAN : GroupRefChange(v)
    \/ FeaturesWatchFlush
    \/ FeaturesUnmount
    \/ PerformanceMount
    \/ ViewportChange
    \/ PerformanceUnmount

SpecTeardown == Init /\ [][NextTeardown]_vars

\* the components that register animations through gsap.matchMedia
NextSections ==
    \/ \E c \in SectionHosts : SectionMount(c)
    \/ \E c \in SectionHosts : SectionUnmount(c)
    \/ ViewportChange
    \/ PerformanceMount
    \/ PerformanceUnmount

SpecSections == Init /\ [][NextSections]_vars

\* everything that reacts to the viewport breakpoint
NextResponsive ==
    \/ \E c \in MediaHosts : MediaSetup(c)
    \/ \E c \in MediaHosts : MediaMounted(c)
    \/ \E c \in MediaHosts : MediaUnmount(c)
    \/ ViewportChange
    \/ PerformanceMount
    \/ PerformanceUnmount

SpecResponsive == Init /\ [][NextResponsive]_vars

\* ---------------------------------------------------------------------
\* Properties
\* ---------------------------------------------------------------------
LastDuration == hist.durations[Len(hist.durations)]

ExpectedTweens(sel, oth, offset, d) ==
    {[target |-> <<sel, "x", 0>>, to |-> 0, duration |-> d],
     [target |-> <<oth, "x", 0>>, to |-> offset, duration |-> d]}
    \cup {[target |-> <<sel, "opacity", i>>, to |-> 1, duration |-> d] : i \in 1..MeshesPerGroup}
    \cup {[target |-> <<oth, "opacity", i>>, to |-> 0, duration |-> d] : i \in 1..MeshesPerGroup}

\* C1: every executed transition animates the selected model to x = 0 and
\* opacity 1 and the other model to opacity 0 and to its off-centre position
\* (small: x = -5, large: x = +5); the large model is the selected one exactly
\* for the scales 0.08 and 0.05.
C1_TransitionTargets ==
    hist.durations # <<>> =>
        hist.started = IF hist.scale \in {8, 5}
                       THEN ExpectedTweens("large", "small", -5, LastDuration)
                       ELSE ExpectedTweens("small", "large", 5, LastDuration)

C1_Witness ==
    /\ Len(hist.durations) >= 2
    /\ hist.scale = 6
    /\ tweens # <<>>

\* C2: the selection is a total two-branch function of the scale: large
\* exactly for 0.08 and 0.05, small for every other value, exactly one model
\* for every value; the executed transition brings the selected model to x = 0.
C2_TwoBranchSelection ==
    /\ (SelectedModel(store.scale) = "large") <=> (store.scale \in {8, 5})
    /\ (SelectedModel(store.scale) = "small") <=> (store.scale \notin {8, 5})
    /\ Cardinality({g \in Groups : SelectedModel(store.scale) = g}) = 1
    /\ hist.durations # <<>> =>
          \A g \in Groups :
             ([target |-> <<g, "x", 0>>, to |-> 0, duration |-> LastDuration] \in hist.started)
                <=> (g = IF hist.scale \in {8, 5} THEN "large" ELSE "small")

C2_Witness ==
    /\ store.scale = 3
    /\ hist.durations # <<>>
    /\ hist.scale = 3

\* C3: the first executed transition has duration 0, also after aborted
\* watcher runs; every later executed transition has duration 1.
C3_FirstRunInstant ==
    \A i \in 1..Len(hist.durations) :
        hist.durations[i] = IF i = 1 THEN 0 ELSE 1

C3_Witness ==
    /\ hist.aborted
    /\ Len(hist.durations) >= 2

\* C4: reset() leaves the store at color '#2e2c2e', scale 0.08 and texture
\* '/videos/feature-1.mp4', the initial state, from every reachable store
\* state, and a second reset() changes nothing.
C4_ResetRestoresDefaults ==
    /\ reset(store) = [color |-> "#2e2c2e", scale |-> 8,
                       texture |-> "/videos/feature-1.mp4"]
    /\ reset(store) = InitStore
    /\ reset(reset(store)) = reset(store)
    /\ lastReset.done => store = reset(lastReset.from) /\ store = InitStore

C4_Witness ==
    /\ lastReset.done
    /\ lastReset.from.color = "#adb5bd"
    /\ lastReset.from.scale = 6
    /\ lastReset.from.texture = "/videos/feature-4.mp4"

\* C5: the store's color is always one of '#adb5bd' and '#2e2c2e'.
C5_ColorEnumerated == store.color \in {"#adb5bd", "#2e2c2e"}

C5_Witness == store.color = "#adb5bd" /\ store.texture = "/videos/feature-2.mp4"

\* C6: the store's scale is always one of 0.03, 0.05, 0.06 and 0.08.
C6_ScaleEnumerated == store.scale \in {3, 5, 6, 8}

C6_Witness == store.scale = 6 /\ store.color = "#adb5bd"

\* C7: the store's texture is always one of the five feature video URLs and
\* never the empty string.
C7_TextureEnumerated ==
    /\ store.texture \in {"/videos/feature-1.mp4", "/videos/feature-2.mp4",
                          "/videos/feature-3.mp4", "/videos/feature-4.mp4",
                          "/videos/feature-5.mp4"}
    /\ store.texture # ""

C7_Witness == store.texture = "/videos/feature-5.mp4" /\ playhead > 45

\* C8: while the video model is mounted and its watcher has nothing left to
\* process, the video element plays the store's texture: its source is the
\* store's texture and play() was requested for it (at setup and after every
\* processed change to a non-empty URL).
C8_VideoFollowsTexture ==
    (mb.state = "mounted" /\ ~mb.watch.dirty /\ store.texture # "") =>
        (video.src = store.texture /\ video.playRequested)

C8_Witness ==
    /\ mb.state = "mounted"
    /\ ~mb.watch.dirty
    /\ mb.watch.old = "/videos/feature-3.mp4"
    /\ video.src = "/videos/feature-3.mp4"

C10_TeardownRevertsAnimations ==
    /\ ms.state = "unmounted" => tweens = <<>>
    /\ feat.state = "unmounted" => ~feat.ctx
    /\ perf.state = "unmounted" => (~perf.ctx /\ ~perf.scatter)

C12_NoListenerLeak ==
    \A c \in MediaHosts :
        /\ mq[c].added <= 1
        /\ mq[c].listeners <= 1
        /\ mq[c].listeners = 1 => mq[c].state = "mounted"
        /\ mq[c].state = "unmounted" =>
              (mq[c].listeners = 0 /\ mq[c].matches = mq[c].atUnmount)

C12_Witness ==
    /\ mq["ProductViewer"].state = "unmounted"
    /\ mq["ProductViewer"].added = 1
    /\ mq["ProductViewer"].matches # MobileQuery(desktop)
    /\ mq["Features"].state = "mounted"
    /\ mq["Features"].matches = MobileQuery(desktop)

\* C13: while the store holds its initial values the selected size is the
\* 14-inch one: the scale is the value the 14" control sets, the 14" control
\* is the highlighted one and the small model is the one shown
C13_InitialSizeIs14 ==
    store = InitStore =>
        /\ store.scale = setScale(store, 6).scale
        /\ HighlightedSizes(store.scale) = {"14"}
        /\ SelectedModel(store.scale) = "small"

\* C14: a run of the watcher callback that finds either model ref unset
\* starts no tween, changes no position and no material, and leaves the
\* first-run flag as it was
GuardedRun ==
    /\ SwitcherSetup \/ SwitcherWatchFlush
    /\ ~ms.smallMacbookRef \/ ~ms.largeMacbookRef

C14_GuardedRunChangesNothing ==
    [][GuardedRun => /\ tweens' = tweens
                     /\ scene' = scene
                     /\ ms'.isFirstRun = ms.isFirstRun]_vars

C14_Witness ==
    /\ ms.state = "mounted"
    /\ hist.aborted
    /\ ms.watch.old[2] # ms.watch.old[3]
    /\ ~ms.watch.dirty
    /\ ms.isFirstRun
    /\ tweens = <<>>
    /\ scene = InitScene

\* C15: once every tween has completed and the watcher has processed the
\* last scale, the scene matches that scale, however the transitions
\* overlapped: the selected model is at x = 0 with opacity 1, the other one
\* is at its off-centre offset with opacity 0
C15_SettledSceneMatchesLastScale ==
    (/\ ms.state = "mounted"
     /\ hist.durations # <<>>
     /\ ~ms.watch.dirty
     /\ tweens = <<>>) =>
        LET sel == SelectedModel(store.scale)
            oth == IF sel = "large" THEN "small" ELSE "large"
            offset == IF oth = "small" THEN -OFFSET_DISTANCE ELSE OFFSET_DISTANCE
        IN /\ scene.value[PositionOf(sel)] = 0
           /\ scene.value[PositionOf(oth)] = offset * Unit
           /\ \A i \in 1..MeshesPerGroup :
                 /\ scene.value[MaterialOf(sel, i)] = 1 * Unit
                 /\ scene.value[MaterialOf(oth, i)] = 0

C15_Witness ==
    /\ ms.state = "mounted"
    /\ hist.overlapped
    /\ Len(hist.durations) = 3
    /\ ~ms.watch.dirty
    /\ tweens = <<>>
    /\ SelectedModel(store.scale) = "small"
    /\ scene.value[PositionOf("large")] = OFFSET_DISTANCE * Unit

\* position of feature k's item of the given kind in the timeline
ItemOf(kind, k) ==
    CHOOSE i \in 1..Len(contentTimeline) :
        contentTimeline[i].kind = kind /\ contentTimeline[i].n = k

\* how far box k's reveal tween has run at playhead p, from 0 to REVEAL
BoxProgress(k, p) ==
    LET s == StartTimes[ItemOf("box", k)]
    IN IF p <= s THEN 0 ELSE IF p >= s + REVEAL THEN REVEAL ELSE p - s

\* C16: in forward playback setTexture is called in the order 1, 2, ..., 5,
\* the texture of feature k is set before box k starts to be revealed, and
\* box k is fully revealed before the texture of feature k + 1 is set
C16_ForwardPlaybackOrder ==
    (feat.ctx /\ playback.forwardOnly) =>
        /\ playback.fired = [i \in 1..Len(playback.fired) |-> i]
        /\ Len(playback.fired) <= Len(featureSequence)
        /\ playback.fired # <<>> =>
              store.texture = FeatureVideo(playback.fired[Len(playback.fired)])
        /\ \A k \in 1..Len(featureSequence) :
              BoxProgress(k, playhead) > 0 => Len(playback.fired) >= k
        /\ \A k \in 1..(Len(featureSequence) - 1) :
              Len(playback.fired) >= k + 1 => BoxProgress(k, playhead) = REVEAL
        /\ playhead = TimelineDuration => Len(playback.fired) = Len(featureSequence)

C16_Witness ==
    /\ feat.ctx
    /\ playback.forwardOnly
    /\ playhead = TimelineDuration
    /\ playback.fired = <<1, 2, 3, 4, 5>>
    /\ store.texture = FeatureVideo(5)

\* the feature whose segment holds playhead p: after its call and not after
\* the next one; 0 before the first call
Segment(p) ==
    IF p = 0 THEN 0
    ELSE CHOOSE k \in 1..Len(featureSequence) :
            /\ StartTimes[ItemOf("call", k)] < p
            /\ k < Len(featureSequence) => p <= StartTimes[ItemOf("call", k + 1)]

\* C17: under any scroll movement, whenever the playhead rests inside the
\* segment of feature k the store's texture is the video of feature k
C17_TextureMatchesSegment ==
    (feat.ctx /\ playhead > 0) => store.texture = FeatureVideo(Segment(playhead))

\* C18: the scroll animations of a Features instance are created at most
\* once: only by a watcher run that sees a non-null groupRef while none
\* exist yet, by the first such run, and by no later change of groupRef
C18_AnimationsCreatedOnce ==
    [][/\ feat'.created > feat.created =>
             /\ feat.state = "mounted"
             /\ feat.groupRef
             /\ ~feat.animationsInitialized
             /\ feat.created = 0
             /\ feat'.created = 1
       /\ (FeaturesWatchFlush /\ feat.groupRef /\ ~feat.watch.old /\ feat.created = 0) =>
             feat'.created = 1]_vars

C18_Witness ==
    /\ feat.state = "mounted"
    /\ feat.created = 1
    /\ feat.reobserved
    /\ feat.groupRef
    /\ ~feat.watch.dirty

\* C19: after a Features instance is unmounted every video element it
\* preloaded is paused with its src cleared, preloadedVideos is empty, the
\* GSAP context is reverted and animationsInitialized is false
C19_UnmountCleansUp ==
    feat.state = "unmounted" =>
        /\ \A k \in DOMAIN feat.elements :
              feat.elements[k].paused /\ feat.elements[k].src = ""
        /\ feat.preloadedVideos = <<>>
        /\ ~feat.ctx
        /\ ~feat.animationsInitialized

C19_Witness ==
    /\ feat.state = "unmounted"
    /\ Len(feat.elements) = Len(featureSequence)
    /\ feat.created = 1
    /\ store.texture = FeatureVideo(3)

\* C20: one video model instance constructs at most one VideoTexture, at
\* setup when the store texture is non-empty and otherwise by the first
\* watcher run that sees a non-empty texture, and never replaces it; once
\* unmounted the video is paused with its src cleared and the texture, if
\* one exists, has been disposed exactly once
C20_OneVideoTexture ==
    /\ mb.created <= 1
    /\ mb.videoTexture <=> mb.created = 1
    /\ (mb.state = "mounted" /\ mb.created = 0) => mb.watch.old = ""
    /\ mb.lazy => mb.created = 1
    /\ mb.state # "unmounted" => mb.disposed = 0
    /\ mb.state = "unmounted" =>
          /\ video.src = ""
          /\ ~video.playRequested
          /\ mb.disposed = mb.created

C20_Witness ==
    /\ mb.state = "unmounted"
    /\ mb.lazy
    /\ mb.watch.old = FeatureVideo(2)
    /\ mb.created = 1
    /\ mb.disposed = 1
    /\ video.src = ""

\* C21: after Highlights or Showcase is unmounted no animation or scroll
\* trigger created by the component is active, whatever breakpoint changes
\* came before or come after the unmount
C21_RevertCoversMatchMedia ==
    \A c \in SectionHosts : sect[c].state = "unmounted" => ~sect[c].anim

====
